---- MODULE Spec2Model ----
(***************************************************************************)
(* SimpleVectorStorage (lib/segment/src/vector_storage/                    *)
(* simple_vector_storage.rs): an in-memory vector storage with on-update   *)
(* persistence into a key-value column, and the optimized filter checker   *)
(* (lib/segment/src/index/query_optimization/optimized_filter.rs).         *)
(*                                                                         *)
(* Point ids are 0-based offsets; slot id of a TLA+ sequence is id + 1.    *)
(***************************************************************************)
EXTENDS Integers, Sequences, FiniteSets, TLC

\* ---------------------------------------------------------------- bounds
Dim == 2              \* dimension the storage is opened with
MaxLen == 3           \* largest total_vector_count() explored
MaxDeleted == 2       \* cap on the deleted_count counter
MaxOther == 2         \* largest source storage handed to update_from
MaxErrLen == 2        \* calls on a failing column start below this length
MaxConds == 2         \* longest condition list of a filter
MaxScoreLen == 2      \* largest storage a scorer is built on
MaxPoints == 2        \* longest list of candidate ids handed to a scorer
MaxTop == 2           \* largest top, and longest output buffer of a raw scorer

\* ------------------------------------------------------------ data values
ZeroVector == [i \in 1..Dim |-> 0]
VectorValues ==
    { [i \in 1..Dim |-> 1], [i \in 1..Dim |-> IF i = 1 THEN 1 ELSE 0] }

Ok(v) == <<"Ok", v>>
Err(e) == <<"Err", e>>
Panic == <<"Panic">>
Pending == <<"Pending">>
None == <<"None">>
Some(v) == <<"Some", v>>
Unit == <<>>

\* ------------------------------------------------- StoredRecord and codec
\* bincode::serialize(&point_id): fixed-width little-endian u32
SerializeKey(point_id) ==
    << point_id % 256, (point_id \div 256) % 256,
       (point_id \div 65536) % 256, (point_id \div 16777216) % 256 >>

DeserializeKey(key) ==
    key[1] + 256 * key[2] + 65536 * key[3] + 16777216 * key[4]

\* bincode::serialize(&record): the bool as one byte, then the vector as a
\* length prefix followed by its elements
SerializeRecord(record) ==
    << IF record.deleted THEN 1 ELSE 0, Len(record.vector) >> \o record.vector

DeserializeRecord(value) ==
    [deleted |-> value[1] = 1, vector |-> SubSeq(value, 3, 2 + value[2])]

\* the column iterates in the byte order of the serialized keys
KeyLess(a, b) ==
    \E i \in 1..4 : a[i] < b[i] /\ \A j \in 1..(i - 1) : a[j] = b[j]

EmptyDb == [k \in {} |-> <<>>]

DbPut(store, key, value) ==
    [k \in (DOMAIN store) \cup {key} |-> IF k = key THEN value ELSE store[k]]

\* -------------------------------------------------------- ChunkedVectors
ChunkedPush(vs, vector) == Append(vs, vector)

ChunkedInsert(vs, key, vector) ==
    [i \in 1..(IF Len(vs) > key THEN Len(vs) ELSE key + 1) |->
        IF i = key + 1 THEN vector
        ELSE IF i <= Len(vs) THEN vs[i] ELSE ZeroVector]

\* ------------------------------------------------------------------ state
VARIABLES
    vectors,        \* SimpleVectorStorage.vectors
    deleted,        \* SimpleVectorStorage.deleted
    deleted_count,  \* SimpleVectorStorage.deleted_count
    db,             \* the store column behind db_wrapper: key bytes -> value bytes
    pc,             \* "idle", or "update_from" while its loop is running
    uf,             \* update_from's locals: other, its id iterator, start_index
    stopped,        \* the AtomicBool handed to update_from
    op,             \* the last public call and its arguments
    result,         \* what that call returned
    dbPuts,         \* keys that call has put into the column, in order
    written,        \* ids the user has ever written
    quantized_vectors,  \* SimpleVectorStorage.quantized_vectors
    quantized_files     \* the quantized index saved under the storage's path

vars == << vectors, deleted, deleted_count, db, pc, uf, stopped, op, result,
           dbPuts, written, quantized_vectors, quantized_files >>

\* ------------------------------------------------------------- BitVec ops
BitSet(d, key, b) == [d EXCEPT ![key + 1] = b]

\* BitVec::resize(new_len, fill), growing only
BitResize(d, new_len, fill) ==
    [i \in 1..new_len |-> IF i <= Len(d) THEN d[i] ELSE fill]

\* ----------------------------------------------------------- the load path
LoadRecord_SkipDeleted(st, key, value) ==
    LET point_id == DeserializeKey(key)
        stored_record == DeserializeRecord(value)
        grown == IF Len(st.deleted) <= point_id
                 THEN BitResize(st.deleted, point_id + 1, FALSE)
                 ELSE st.deleted
    IN  [ vectors |-> IF stored_record.deleted THEN st.vectors
                      ELSE ChunkedInsert(st.vectors, point_id, stored_record.vector),
          deleted |-> BitSet(grown, point_id, stored_record.deleted),
          deleted_count |-> IF stored_record.deleted
                            THEN st.deleted_count + 1
                            ELSE st.deleted_count ]

\* one iteration of the loop of open_simple_vector_storage
LoadRecord(st, key, value) ==
    LET point_id == DeserializeKey(key)
        stored_record == DeserializeRecord(value)
        grown == IF Len(st.deleted) <= point_id
                 THEN BitResize(st.deleted, point_id + 1, FALSE)
                 ELSE st.deleted
    IN  [ vectors |-> ChunkedInsert(st.vectors, point_id, stored_record.vector),
          deleted |-> BitSet(grown, point_id, stored_record.deleted),
          deleted_count |-> IF stored_record.deleted
                            THEN st.deleted_count + 1
                            ELSE st.deleted_count ]

RECURSIVE LoadFrom(_, _, _)
LoadFrom(st, store, keys) ==
    IF keys = {} THEN st
    ELSE LET key == CHOOSE k \in keys : \A o \in keys : o = k \/ KeyLess(k, o)
         IN  LoadFrom(LoadRecord(st, key, store[key]), store, keys \ {key})

\* open_simple_vector_storage: the fields of the storage it returns
OpenSimpleVectorStorage(store) ==
    LoadFrom([vectors |-> <<>>, deleted |-> <<>>, deleted_count |-> 0],
             store, DOMAIN store)

\* ------------------------------------------------------------- persistence
\* update_stored: the record of slot point_id, put under its key; a failing
\* put leaves the column as it was
StoredRecordOf_NoFlag(vs, d, point_id) ==
    [deleted |-> FALSE, vector |-> vs[point_id + 1]]

StoredRecordOf(vs, d, point_id) ==
    [deleted |-> d[point_id + 1], vector |-> vs[point_id + 1]]

UpdateStored(vs, d, store, point_id, putOk) ==
    IF putOk
    THEN DbPut(store, SerializeKey(point_id),
               SerializeRecord(StoredRecordOf(vs, d, point_id)))
    ELSE store

ServiceError == Err("ServiceError")
Cancelled == Err("Cancelled")

\* --------------------------------------------------------------- accessors
TotalVectorCountOf(vs) == Len(vs)
total_vector_count == TotalVectorCountOf(vectors)

\* vector_count: a usize subtraction. When deleted_count exceeds the length
\* it panics in a build with overflow checks and wraps to 2^64 - k otherwise.
VectorCountOutcomes(vs, dc) ==
    IF dc <= Len(vs)
    THEN { Ok(Len(vs) - dc) }
    ELSE { Panic, <<"Wrapped", dc - Len(vs)>> }

GetVectorIn(vs, d, key) ==
    IF (IF key < Len(d) THEN d[key + 1] ELSE TRUE)
    THEN None
    ELSE Some(vs[key + 1])

get_vector(key) == GetVectorIn(vectors, deleted, key)

\* is_deleted indexes the mask directly: out of range it panics
IsDeletedIn(d, key) ==
    IF key < Len(d) THEN Ok(d[key + 1]) ELSE Panic

is_deleted(key) == IsDeletedIn(deleted, key)

RECURSIVE IterIdsFrom_NoFilter(_, _, _)
IterIdsFrom_NoFilter(vs, d, id) ==
    IF id >= Len(vs) THEN <<>>
    ELSE <<id>> \o IterIdsFrom_NoFilter(vs, d, id + 1)

\* iter_ids: the range 0..vectors.len() filtered by the mask
RECURSIVE IterIdsFrom(_, _, _)
IterIdsFrom(vs, d, id) ==
    IF id >= Len(vs) THEN <<>>
    ELSE IF ~d[id + 1] THEN <<id>> \o IterIdsFrom(vs, d, id + 1)
    ELSE IterIdsFrom(vs, d, id + 1)

IterIdsOf(vs, d) == IterIdsFrom(vs, d, 0)
iter_ids == IterIdsOf(vectors, deleted)

\* ------------------------------------------------------------------- Init
NoCall(name) == [name |-> name, key |-> 0, vector |-> ZeroVector]
NoUpdate == [other_vectors |-> <<>>, other_deleted |-> <<>>,
             iter |-> <<>>, start_index |-> 0]

Init ==
    /\ vectors = <<>>
    /\ deleted = <<>>
    /\ deleted_count = 0
    /\ db = EmptyDb
    /\ pc = "idle"
    /\ uf = NoUpdate
    /\ stopped = FALSE
    /\ op = NoCall("open")
    /\ result = Ok(Unit)
    /\ dbPuts = <<>>
    /\ written = {}
    /\ quantized_vectors = None
    /\ quantized_files = None

\* ---------------------------------------------------------------- actions
PutVectorMask_PushDeleted(d) == Append(d, TRUE)

\* the mask after put_vector's deleted.push(false)
PutVectorMask(d) == Append(d, FALSE)

\* put_vector(vector)
PutVector(vector, putOk) ==
    /\ pc = "idle"
    /\ Len(vectors) < MaxLen
    /\ Len(vector) = Dim
    /\ LET new_id == Len(vectors)
           vs == ChunkedPush(vectors, vector)
           d  == PutVectorMask(deleted)
       IN  /\ vectors' = vs
           /\ deleted' = d
           /\ db' = UpdateStored(vs, d, db, new_id, putOk)
           /\ dbPuts' = IF putOk THEN <<SerializeKey(new_id)>> ELSE <<>>
           /\ result' = IF putOk THEN Ok(new_id) ELSE ServiceError
           /\ written' = written \cup {new_id}
    /\ op' = [name |-> "put_vector", key |-> 0, vector |-> vector]
    /\ uf' = NoUpdate
    /\ UNCHANGED << quantized_vectors, quantized_files >>
    /\ UNCHANGED << deleted_count, pc, stopped >>

InsertDeleted_FillLive(d, key) ==
    BitSet(IF Len(d) <= key THEN BitResize(d, key + 1, FALSE) ELSE d, key, FALSE)

\* the mask after insert_vector's resize and set
InsertDeleted(d, key) ==
    BitSet(IF Len(d) <= key THEN BitResize(d, key + 1, TRUE) ELSE d, key, FALSE)

\* insert_vector(key, vector)
InsertVector(key, vector, putOk) ==
    /\ pc = "idle"
    /\ key < MaxLen
    /\ LET vs == ChunkedInsert(vectors, key, vector)
           d  == InsertDeleted(deleted, key)
       IN  /\ vectors' = vs
           /\ deleted' = d
           /\ db' = UpdateStored(vs, d, db, key, putOk)
           /\ dbPuts' = IF putOk THEN <<SerializeKey(key)>> ELSE <<>>
           /\ result' = IF putOk THEN Ok(Unit) ELSE ServiceError
    /\ written' = written \cup {key}
    /\ op' = [name |-> "insert_vector", key |-> key, vector |-> vector]
    /\ uf' = NoUpdate
    /\ UNCHANGED << quantized_vectors, quantized_files >>
    /\ UNCHANGED << deleted_count, pc, stopped >>

DeleteCount_Always(d, dc, key) == dc + 1

\* the counter after delete(key) on an id in range
DeleteCount(d, dc, key) ==
    IF ~d[key + 1] THEN dc + 1 ELSE dc

Delete_GrowsMask(key, putOk) ==
    /\ pc = "idle"
    /\ IF key >= Len(deleted)
       THEN /\ result' = Ok(Unit)
            /\ dbPuts' = <<>>
            /\ deleted' = BitResize(deleted, key + 1, TRUE)
            /\ UNCHANGED << vectors, deleted_count, db >>
       ELSE /\ DeleteCount(deleted, deleted_count, key) <= MaxDeleted
            /\ deleted_count' = DeleteCount(deleted, deleted_count, key)
            /\ deleted' = BitSet(deleted, key, TRUE)
            /\ db' = UpdateStored(vectors, deleted', db, key, putOk)
            /\ dbPuts' = IF putOk THEN <<SerializeKey(key)>> ELSE <<>>
            /\ result' = IF putOk THEN Ok(Unit) ELSE ServiceError
            /\ UNCHANGED vectors
    /\ op' = [name |-> "delete", key |-> key, vector |-> ZeroVector]
    /\ uf' = NoUpdate
    /\ UNCHANGED << quantized_vectors, quantized_files >>
    /\ UNCHANGED << pc, stopped, written >>

\* delete(key)
Delete(key, putOk) ==
    /\ pc = "idle"
    /\ IF key >= Len(deleted)
       THEN /\ result' = Ok(Unit)
            /\ dbPuts' = <<>>
            /\ UNCHANGED << vectors, deleted, deleted_count, db >>
       ELSE /\ DeleteCount(deleted, deleted_count, key) <= MaxDeleted
            /\ deleted_count' = DeleteCount(deleted, deleted_count, key)
            /\ deleted' = BitSet(deleted, key, TRUE)
            /\ db' = UpdateStored(vectors, deleted', db, key, putOk)
            /\ dbPuts' = IF putOk THEN <<SerializeKey(key)>> ELSE <<>>
            /\ result' = IF putOk THEN Ok(Unit) ELSE ServiceError
            /\ UNCHANGED vectors
    /\ op' = [name |-> "delete", key |-> key, vector |-> ZeroVector]
    /\ uf' = NoUpdate
    /\ UNCHANGED << quantized_vectors, quantized_files >>
    /\ UNCHANGED << pc, stopped, written >>

\* the storages update_from may be given: vectors and mask of equal length.
\* update_from never reads a deleted slot of other (it asks get_vector only
\* for the ids of iter_ids), so one content stands for all of them.
OtherStorages ==
    { o \in UNION { { [vectors |-> ov, deleted |-> od] :
                        ov \in [1..n -> VectorValues], od \in [1..n -> BOOLEAN] } :
                    n \in 0..MaxOther } :
        \A i \in 1..Len(o.vectors) :
            o.deleted[i] => o.vectors[i] = [k \in 1..Dim |-> 1] }

\* update_from(other, stopped): entry, up to the creation of the iterator
UpdateFromBegin(other, flag) ==
    /\ pc = "idle"
    /\ Len(vectors) + Len(IterIdsOf(other.vectors, other.deleted)) <= MaxLen
    /\ pc' = "update_from"
    /\ uf' = [other_vectors |-> other.vectors, other_deleted |-> other.deleted,
              iter |-> IterIdsOf(other.vectors, other.deleted),
              start_index |-> Len(vectors)]
    /\ stopped' = flag
    /\ op' = NoCall("update_from")
    /\ result' = Pending
    /\ dbPuts' = <<>>
    /\ UNCHANGED << quantized_vectors, quantized_files >>
    /\ UNCHANGED << vectors, deleted, deleted_count, db, written >>

\* the flag is set by whoever shares it while the loop runs
StopProcess ==
    /\ pc = "update_from"
    /\ ~stopped
    /\ stopped' = TRUE
    /\ UNCHANGED << quantized_vectors, quantized_files >>
    /\ UNCHANGED << vectors, deleted, deleted_count, db, pc, uf, op, result,
                    dbPuts, written >>

\* one iteration of the loop whose check_process_stopped fails
UpdateFromCancel ==
    /\ pc = "update_from"
    /\ uf.iter # <<>>
    /\ stopped
    /\ pc' = "idle"
    /\ result' = Cancelled
    /\ UNCHANGED << quantized_vectors, quantized_files >>
    /\ UNCHANGED << vectors, deleted, deleted_count, db, uf, stopped, op,
                    dbPuts, written >>

UpdateFromTransfer_IgnoreError(putOk) ==
    /\ pc = "update_from"
    /\ uf.iter # <<>>
    /\ ~stopped
    /\ LET point_id == Head(uf.iter)
           other_vector == GetVectorIn(uf.other_vectors, uf.other_deleted, point_id)
           d  == Append(deleted, FALSE)
           new_id == Len(vectors)
           vs == ChunkedPush(vectors, other_vector[2])
       IN  /\ other_vector # None
           /\ deleted' = d
           /\ vectors' = vs
           /\ db' = UpdateStored(vs, d, db, new_id, putOk)
           /\ dbPuts' = IF putOk THEN Append(dbPuts, SerializeKey(new_id)) ELSE dbPuts
           /\ written' = written \cup {new_id}
           /\ pc' = "update_from"
           /\ result' = Pending
    /\ uf' = [uf EXCEPT !.iter = Tail(uf.iter)]
    /\ UNCHANGED << quantized_vectors, quantized_files >>
    /\ UNCHANGED << deleted_count, stopped, op >>

UpdateFromTransfer_NoCheck(putOk) ==
    /\ pc = "update_from"
    /\ uf.iter # <<>>
    /\ LET point_id == Head(uf.iter)
           other_vector == GetVectorIn(uf.other_vectors, uf.other_deleted, point_id)
           d  == Append(deleted, FALSE)
           new_id == Len(vectors)
           vs == ChunkedPush(vectors, other_vector[2])
       IN  /\ other_vector # None
           /\ deleted' = d
           /\ vectors' = vs
           /\ db' = UpdateStored(vs, d, db, new_id, putOk)
           /\ dbPuts' = IF putOk THEN Append(dbPuts, SerializeKey(new_id)) ELSE dbPuts
           /\ written' = written \cup {new_id}
           /\ pc' = IF putOk THEN "update_from" ELSE "idle"
           /\ result' = IF putOk THEN Pending ELSE ServiceError
    /\ uf' = [uf EXCEPT !.iter = Tail(uf.iter)]
    /\ UNCHANGED << quantized_vectors, quantized_files >>
    /\ UNCHANGED << deleted_count, stopped, op >>

\* one iteration of the loop that transfers the next point of other
UpdateFromTransfer(putOk) ==
    /\ pc = "update_from"
    /\ uf.iter # <<>>
    /\ ~stopped
    /\ LET point_id == Head(uf.iter)
           other_vector == GetVectorIn(uf.other_vectors, uf.other_deleted, point_id)
           d  == Append(deleted, FALSE)
           new_id == Len(vectors)
           vs == ChunkedPush(vectors, other_vector[2])
       IN  /\ other_vector # None
           /\ deleted' = d
           /\ vectors' = vs
           /\ db' = UpdateStored(vs, d, db, new_id, putOk)
           /\ dbPuts' = IF putOk THEN Append(dbPuts, SerializeKey(new_id)) ELSE dbPuts
           /\ written' = written \cup {new_id}
           /\ pc' = IF putOk THEN "update_from" ELSE "idle"
           /\ result' = IF putOk THEN Pending ELSE ServiceError
    /\ uf' = [uf EXCEPT !.iter = Tail(uf.iter)]
    /\ UNCHANGED << quantized_vectors, quantized_files >>
    /\ UNCHANGED << deleted_count, stopped, op >>

UpdateFromRange_FromZero(start_index, end_index) == <<0, end_index>>

\* the range update_from returns
UpdateFromRange(start_index, end_index) == <<start_index, end_index>>

\* the iterator is exhausted: return start_index..end_index
UpdateFromReturn ==
    /\ pc = "update_from"
    /\ uf.iter = <<>>
    /\ pc' = "idle"
    /\ result' = Ok(UpdateFromRange(uf.start_index, Len(vectors)))
    /\ UNCHANGED << quantized_vectors, quantized_files >>
    /\ UNCHANGED << vectors, deleted, deleted_count, db, uf, stopped, op,
                    dbPuts, written >>

\* the storage is dropped and the same column is opened again
Reopen ==
    /\ pc = "idle"
    /\ LET st == OpenSimpleVectorStorage(db)
       IN  /\ vectors' = st.vectors
           /\ deleted' = st.deleted
           /\ deleted_count' = st.deleted_count
    /\ op' = NoCall("open")
    /\ result' = Ok(Unit)
    /\ dbPuts' = <<>>
    /\ uf' = NoUpdate
    /\ quantized_vectors' = None
    /\ UNCHANGED << db, pc, stopped, written, quantized_files >>

Keys == 0..MaxLen

Next ==
    \/ \E vector \in VectorValues : PutVector(vector, TRUE)
    \/ \E key \in Keys, vector \in VectorValues : InsertVector(key, vector, TRUE)
    \/ \E key \in Keys : Delete(key, TRUE)
    \/ \E other \in OtherStorages, flag \in BOOLEAN : UpdateFromBegin(other, flag)
    \/ StopProcess
    \/ UpdateFromCancel
    \/ UpdateFromTransfer(TRUE)
    \/ UpdateFromReturn
    \/ Reopen

Spec == Init /\ [][Next]_vars

\* The same calls over a column whose put may fail. The caller treats a
\* store error as fatal to the storage and recovers by opening it again, so
\* after such an error the next call is the reopen.
Usable == result # ServiceError /\ total_vector_count < MaxErrLen

NextErr ==
    \/ Usable /\ \E vector \in VectorValues, putOk \in BOOLEAN : PutVector(vector, putOk)
    \/ Usable /\ \E key \in Keys, vector \in VectorValues, putOk \in BOOLEAN :
                    InsertVector(key, vector, putOk)
    \/ Usable /\ \E key \in Keys, putOk \in BOOLEAN : Delete(key, putOk)
    \/ Usable /\ \E other \in OtherStorages, flag \in BOOLEAN :
                    UpdateFromBegin(other, flag)
    \/ StopProcess
    \/ UpdateFromCancel
    \/ \E putOk \in BOOLEAN : UpdateFromTransfer(putOk)
    \/ UpdateFromReturn
    \/ Reopen

SpecErr == Init /\ [][NextErr]_vars

TypeOK ==
    /\ Len(vectors) <= MaxLen
    /\ Len(deleted) = Len(vectors)
    /\ deleted_count \in 0..(MaxDeleted + MaxLen)
    /\ pc \in {"idle", "update_from"}

\* ================================================================= claims
LiveSlots(d) == { id \in 0..(Len(d) - 1) : ~d[id + 1] }
Max(a, b) == IF a > b THEN a ELSE b
Mutators == {"put_vector", "insert_vector", "delete", "update_from"}

\* C1: after any sequence of successful mutations, reopening the column
\* yields the same total_vector_count(), the same deleted flag for every id
\* and the same vector for every live id.
C1_RoundTrip ==
    pc = "idle" =>
        LET st == OpenSimpleVectorStorage(db)
        IN  /\ TotalVectorCountOf(st.vectors) = total_vector_count
            /\ \A id \in 0..(total_vector_count - 1) :
                  /\ IsDeletedIn(st.deleted, id) = is_deleted(id)
                  /\ (is_deleted(id) = Ok(FALSE) =>
                         GetVectorIn(st.vectors, st.deleted, id) = get_vector(id))

\* C2: for every id, below or above total_vector_count(), is_deleted(id)
\* returns true exactly when get_vector(id) is None, and neither call fails.
C2_IsDeletedIffAbsent ==
    \A id \in Keys :
        /\ is_deleted(id) # Panic
        /\ is_deleted(id) = Ok(get_vector(id) = None)

\* C3: deleted_count() equals the number of slots below
\* total_vector_count() that the user has ever written and whose mask bit is
\* currently deleted.
C3_DeletedCountIsWrittenTombstones ==
    deleted_count =
        Cardinality({ id \in written : id < total_vector_count /\ deleted[id + 1] })

\* C4: vector_count() + deleted_count() = total_vector_count(), and
\* deleted_count() never exceeds total_vector_count().
C4_CountsAddUp ==
    /\ deleted_count <= total_vector_count
    /\ \A r \in VectorCountOutcomes(vectors, deleted_count) :
          /\ r[1] = "Ok"
          /\ r[2] + deleted_count = total_vector_count

\* C5: put_vector(v) on a storage of n slots returns n, grows the storage to
\* n + 1, leaves the new id live with get_vector(id) = v; the id is not an
\* existing id, and since no step ever lowers total_vector_count() it is
\* larger than every id put_vector returned before.
C5_PutVectorAppends ==
    [][ /\ TotalVectorCountOf(vectors') >= total_vector_count
        /\ op'.name = "put_vector" =>
              LET n == total_vector_count
              IN  /\ result'[1] = "Ok"
                  /\ result'[2] = n
                  /\ TotalVectorCountOf(vectors') = n + 1
                  /\ IsDeletedIn(deleted', result'[2]) = Ok(FALSE)
                  /\ GetVectorIn(vectors', deleted', result'[2]) = Some(op'.vector)
                  /\ result'[2] \notin 0..(n - 1) ]_vars

C5_Witness ==
    /\ op.name = "put_vector"
    /\ result = Ok(2)
    /\ deleted[1] /\ 0 \notin written
    /\ deleted[2] /\ 1 \in written
    /\ get_vector(2) = Some(op.vector)

\* C6: delete(id) on an id in range leaves is_deleted(id) true, adds exactly
\* 1 to deleted_count() when the id was live and nothing when it was already
\* deleted, so a repeated delete changes neither the counter nor the mask.
C6_DeleteTombstones ==
    [][ (op'.name = "delete" /\ op'.key < total_vector_count) =>
          /\ IsDeletedIn(deleted', op'.key) = Ok(TRUE)
          /\ (is_deleted(op'.key) = Ok(FALSE) => deleted_count' = deleted_count + 1)
          /\ (is_deleted(op'.key) = Ok(TRUE) =>
                 deleted_count' = deleted_count /\ deleted' = deleted)
          /\ \A id \in 0..(total_vector_count - 1) :
                 id # op'.key => deleted'[id + 1] = deleted[id + 1] ]_vars

C6_Witness ==
    /\ op.name = "delete"
    /\ op.key < total_vector_count
    /\ dbPuts # <<>>
    /\ op.key \in written
    /\ deleted_count = 1
    /\ Cardinality(LiveSlots(deleted)) = total_vector_count - 1
    /\ total_vector_count >= 2

\* C7: delete(id) with id >= total_vector_count() returns success, leaves
\* vectors, mask, deleted_count and total_vector_count as they were and puts
\* no record into the column.
C7_DeleteOutOfRangeNoop ==
    [][ (op'.name = "delete" /\ op'.key >= total_vector_count) =>
          /\ result' = Ok(Unit)
          /\ vectors' = vectors
          /\ deleted' = deleted
          /\ deleted_count' = deleted_count
          /\ db' = db
          /\ dbPuts' = <<>> ]_vars

C7_Witness ==
    /\ op.name = "delete"
    /\ op.key >= total_vector_count
    /\ total_vector_count >= 1
    /\ result = Ok(Unit)
    /\ dbPuts = <<>>

\* C8: insert_vector(id, v) on a storage of n slots: total_vector_count()
\* becomes max(n, id + 1), every new slot in [n, id) is deleted, slot id is
\* live and holds v, and every other slot below n keeps vector and flag.
C8_InsertVectorPlaces ==
    [][ op'.name = "insert_vector" =>
          LET n == total_vector_count
              key == op'.key
          IN  /\ result' = Ok(Unit)
              /\ TotalVectorCountOf(vectors') = Max(n, key + 1)
              /\ Len(deleted') = Max(n, key + 1)
              /\ \A id \in n..(key - 1) :
                    /\ IsDeletedIn(deleted', id) = Ok(TRUE)
                    /\ GetVectorIn(vectors', deleted', id) = None
              /\ IsDeletedIn(deleted', key) = Ok(FALSE)
              /\ GetVectorIn(vectors', deleted', key) = Some(op'.vector)
              /\ \A id \in 0..(n - 1) :
                    id # key => /\ vectors'[id + 1] = vectors[id + 1]
                                /\ deleted'[id + 1] = deleted[id + 1] ]_vars

C8_Witness ==
    /\ op.name = "insert_vector"
    /\ op.key = 2
    /\ total_vector_count = 3
    /\ written = {0, 2}
    /\ is_deleted(0) = Ok(FALSE)
    /\ is_deleted(1) = Ok(TRUE)
    /\ get_vector(2) = Some(op.vector)
    /\ DOMAIN db = {SerializeKey(0), SerializeKey(2)}

\* the ids a successful call targeted
Targeted ==
    IF op.name = "put_vector" THEN {result[2]}
    ELSE IF op.name = "insert_vector" THEN {op.key}
    ELSE IF op.name = "delete" THEN {op.key} \cap (0..(total_vector_count - 1))
    ELSE IF op.name = "update_from" THEN result[2][1]..(result[2][2] - 1)
    ELSE {}

\* C9: when put_vector, insert_vector, delete in range or update_from returns
\* success, the column holds for each targeted id a record, put by that
\* call, whose flag and vector equal the slot's in memory.
C9_PersistedOnSuccess ==
    (pc = "idle" /\ op.name \in Mutators /\ result[1] = "Ok") =>
        \A id \in Targeted :
            /\ SerializeKey(id) \in DOMAIN db
            /\ \E i \in 1..Len(dbPuts) : dbPuts[i] = SerializeKey(id)
            /\ DeserializeRecord(db[SerializeKey(id)]) =
                   [deleted |-> deleted[id + 1], vector |-> vectors[id + 1]]

C9_Witness ==
    /\ pc = "idle"
    /\ op.name = "delete"
    /\ result = Ok(Unit)
    /\ op.key = 1
    /\ total_vector_count = 3
    /\ DeserializeRecord(db[SerializeKey(1)]) =
           [deleted |-> TRUE, vector |-> vectors[2]]
    /\ vectors[2] # ZeroVector

\* the live id of a mask that has exactly j - 1 live ids below it
NthLive(d, j) ==
    CHOOSE id \in LiveSlots(d) :
        Cardinality({ o \in LiveSlots(d) : o < id }) = j - 1

\* C10: update_from that runs to completion appends, in ascending id order,
\* one live slot per live id of other holding its vector, returns [n, m)
\* with n the count before and m the count after, m - n the number of live
\* ids of other, and changes no slot below n.
C10_UpdateFromAppends ==
    [][ /\ (pc = "idle" /\ pc' = "update_from") =>
               uf'.start_index = total_vector_count
        /\ (pc = "update_from") =>
               /\ uf'.start_index = uf.start_index
               /\ \A id \in 0..(total_vector_count - 1) :
                      /\ vectors'[id + 1] = vectors[id + 1]
                      /\ deleted'[id + 1] = deleted[id + 1]
        /\ (pc = "update_from" /\ pc' = "idle" /\ result'[1] = "Ok") =>
               LET n == result'[2][1]
                   m == result'[2][2]
                   live == LiveSlots(uf.other_deleted)
               IN  /\ n = uf.start_index
                   /\ m = TotalVectorCountOf(vectors')
                   /\ Len(deleted') = m
                   /\ m - n = Cardinality(live)
                   /\ \A j \in 1..(m - n) :
                         /\ ~deleted'[n + j]
                         /\ vectors'[n + j] =
                                uf.other_vectors[NthLive(uf.other_deleted, j) + 1]
      ]_vars

C10_Witness ==
    /\ pc = "idle"
    /\ op.name = "update_from"
    /\ result = Ok(<<1, 2>>)
    /\ uf.other_deleted = <<TRUE, FALSE>>
    /\ uf.other_vectors[1] # uf.other_vectors[2]
    /\ get_vector(1) = Some(uf.other_vectors[2])

\* the points of other that update_from has transferred so far
Transferred == Cardinality(LiveSlots(uf.other_deleted)) - Len(uf.iter)

\* C11: update_from consults the stop flag before each transfer: when the
\* flag is set while points of other remain, the next thing it does is return
\* the cancellation error, transferring nothing more; the destination then
\* holds exactly the points transferred before, each with its vector, a live
\* mask bit and its record in the column, vectors and mask of equal length.
C11_UpdateFromCancels ==
    [][ (pc = "update_from" /\ stopped /\ uf.iter # <<>>) =>
          /\ pc' = "idle"
          /\ result' = Cancelled
          /\ vectors' = vectors /\ deleted' = deleted /\ db' = db
          /\ dbPuts' = dbPuts
          /\ uf'.iter = uf.iter
          /\ TotalVectorCountOf(vectors') = uf.start_index + Transferred
          /\ Len(deleted') = TotalVectorCountOf(vectors')
          /\ \A j \in 1..Transferred :
                LET id == uf.start_index + j - 1
                    src == NthLive(uf.other_deleted, j)
                IN  /\ GetVectorIn(vectors', deleted', id) =
                           Some(uf.other_vectors[src + 1])
                    /\ SerializeKey(id) \in DOMAIN db'
                    /\ DeserializeRecord(db'[SerializeKey(id)]) =
                           [deleted |-> FALSE, vector |-> uf.other_vectors[src + 1]]
      ]_vars

C11_Witness ==
    /\ pc = "idle"
    /\ op.name = "update_from"
    /\ result = Cancelled
    /\ stopped
    /\ Transferred = 1
    /\ Len(uf.iter) = 1
    /\ total_vector_count = uf.start_index + 1
    /\ uf.start_index = 1

\* C14: iter_ids() yields, in ascending order and each exactly once, precisely
\* the ids below total_vector_count() whose mask bit is live, so a deleted id
\* is never yielded.
C14_IterIdsLiveAscending ==
    pc = "idle" =>
        /\ \A i, j \in 1..Len(iter_ids) : i < j => iter_ids[i] < iter_ids[j]
        /\ { iter_ids[i] : i \in 1..Len(iter_ids) } =
               { id \in 0..(total_vector_count - 1) : is_deleted(id) = Ok(FALSE) }
        /\ \A i \in 1..Len(iter_ids) : get_vector(iter_ids[i]) # None

C14_Witness ==
    /\ pc = "idle"
    /\ op.name = "delete"
    /\ op.key = 1
    /\ deleted = <<FALSE, TRUE, FALSE>>
    /\ iter_ids = <<0, 2>>

\* a step that reaches update_stored, and one whose put did not go through
StoreStep ==
    \/ op'.name \in {"put_vector", "insert_vector"}
    \/ op'.name = "delete" /\ op'.key < total_vector_count
    \/ pc = "update_from" /\ vectors' # vectors

PutFailed ==
    IF pc = "update_from" THEN dbPuts' = dbPuts ELSE dbPuts' = <<>>

\* C17: when the store's put fails inside put_vector, insert_vector, delete
\* or update_from, the call returns that error, never success; the failing
\* step writes nothing to the column and changes memory only as the code
\* before the put does, and update_from transfers no point after it.
C17_PutFailureAborts ==
    [][ /\ (StoreStep /\ PutFailed) =>
              /\ result' = ServiceError
              /\ pc' = "idle"
              /\ db' = db
              /\ op'.name = "put_vector" =>
                    /\ vectors' = Append(vectors, op'.vector)
                    /\ deleted' = Append(deleted, FALSE)
                    /\ deleted_count' = deleted_count
              /\ op'.name = "insert_vector" =>
                    /\ TotalVectorCountOf(vectors') = Max(total_vector_count, op'.key + 1)
                    /\ GetVectorIn(vectors', deleted', op'.key) = Some(op'.vector)
                    /\ deleted_count' = deleted_count
              /\ op'.name = "delete" =>
                    /\ vectors' = vectors
                    /\ deleted' = BitSet(deleted, op'.key, TRUE)
                    /\ deleted_count' \in {deleted_count, deleted_count + 1}
              /\ op'.name = "update_from" =>
                    /\ TotalVectorCountOf(vectors') = total_vector_count + 1
                    /\ Len(deleted') = Len(deleted) + 1
                    /\ uf'.iter = Tail(uf.iter)
                    /\ deleted_count' = deleted_count
        /\ (result' = ServiceError /\ result # ServiceError) => (StoreStep /\ PutFailed)
      ]_vars

C17_Witness ==
    /\ pc = "idle"
    /\ op.name = "update_from"
    /\ result = ServiceError
    /\ Len(uf.iter) = 1
    /\ Transferred = 1
    /\ total_vector_count = uf.start_index + 1
    /\ SerializeKey(uf.start_index) \notin DOMAIN db
    /\ uf.start_index >= 1

\* C18: the number of vector slots equals the length of the deleted mask
\* whenever a public operation has returned, with success, a store error or
\* the cancellation error: after open, put_vector, insert_vector, delete and
\* update_from.
C18_VectorsAndMaskSameLength ==
    pc = "idle" => TotalVectorCountOf(vectors) = Len(deleted)

C18_Witness ==
    /\ pc = "idle"
    /\ op.name = "open"
    /\ DOMAIN db = {SerializeKey(0), SerializeKey(2)}
    /\ total_vector_count = 3
    /\ Len(deleted) = 3
    /\ written = {0, 1, 2}

\* ======================================================= optimized_filter.rs
\* A checker is a closure over point ids: it is modelled by the set of ids it
\* accepts. A condition is a checker or a filter.
PointIds == {0, 1}
Checker(accepted) == [kind |-> "Checker", accepted |-> accepted]
FilterCondition(filter) == [kind |-> "Filter", filter |-> filter]
Checkers == { Checker({0}), Checker({1}) }

OptimizedFilter(should, must, must_not, nested) ==
    [should |-> should, must |-> must, must_not |-> must_not, nested |-> nested]
NestedOptimizedFilter(filter) == [path |-> "path", filter |-> filter]

RECURSIVE CheckOptimizedFilter(_, _)
RECURSIVE CheckCondition(_, _)

CheckShould_All(should, point_id) ==
    IF should = None THEN TRUE
    ELSE \A i \in 1..Len(should[2]) : CheckCondition(should[2][i], point_id)

\* check_should: None passes, Some(conditions) needs any condition to accept
CheckShould(should, point_id) ==
    IF should = None THEN TRUE
    ELSE \E i \in 1..Len(should[2]) : CheckCondition(should[2][i], point_id)

\* check_must: None passes, Some(conditions) needs all conditions to accept
CheckMust(must, point_id) ==
    IF must = None THEN TRUE
    ELSE \A i \in 1..Len(must[2]) : CheckCondition(must[2][i], point_id)

\* check_must_not: None passes, Some(conditions) needs all conditions to reject
CheckMustNot(must, point_id) ==
    IF must = None THEN TRUE
    ELSE \A i \in 1..Len(must[2]) : ~CheckCondition(must[2][i], point_id)

\* check_nested: None passes; otherwise the must list of the nested filter is
\* folded with any(). Its conditions are checkers: a filter there is the
\* unreachable!() arm, and no filter handed to the checker has one.
CheckNested(nested, point_id) ==
    IF nested = None THEN TRUE
    ELSE LET must == nested[2].filter.must
         IN  IF must = None THEN TRUE
             ELSE \E i \in 1..Len(must[2]) : point_id \in must[2][i].accepted

CheckCondition(condition, point_id) ==
    IF condition.kind = "Filter"
    THEN CheckOptimizedFilter(condition.filter, point_id)
    ELSE point_id \in condition.accepted

CheckOptimizedFilter(filter, point_id) ==
    /\ CheckShould(filter.should, point_id)
    /\ CheckMust(filter.must, point_id)
    /\ CheckMustNot(filter.must_not, point_id)
    /\ CheckNested(filter.nested, point_id)

\* --------------------------------------------------- the filters explored
SeqsUpTo(S, n) == UNION { [1..k -> S] : k \in 0..n }
CheckerLists == {None} \cup { Some(l) : l \in SeqsUpTo(Checkers, MaxConds) }

\* nested object filters: only checkers, one level
NestedFilters ==
    {None} \cup { Some(NestedOptimizedFilter(OptimizedFilter(None, must, None, None))) :
                    must \in CheckerLists }

\* the filters that occur as conditions of another filter
SubFilters ==
    { OptimizedFilter(Some(<<Checker({0})>>), None, None, None),
      OptimizedFilter(None, None, Some(<<Checker({0})>>), None),
      OptimizedFilter(None, Some(<<Checker({0}), Checker({1})>>), None, None),
      OptimizedFilter(None, None, None,
          Some(NestedOptimizedFilter(
              OptimizedFilter(None, Some(<<Checker({0}), Checker({1})>>), None, None)))) }

ConditionLists ==
    CheckerLists \cup { Some(<<FilterCondition(f)>>) : f \in SubFilters }

Filters ==
    { OptimizedFilter(should, must, must_not, nested) :
        should \in ConditionLists, must \in ConditionLists,
        must_not \in ConditionLists, nested \in NestedFilters }

\* a filter and a point are chosen, then check_optimized_filter is called
InitFilter ==
    /\ vectors = <<>>
    /\ deleted = <<>>
    /\ deleted_count = 0
    /\ db = EmptyDb
    /\ pc = "idle"
    /\ uf = NoUpdate
    /\ stopped = FALSE
    /\ \E filter \in Filters, point_id \in PointIds :
          op = [name |-> "filter", key |-> point_id, vector |-> ZeroVector,
                filter |-> filter]
    /\ result = Pending
    /\ dbPuts = <<>>
    /\ written = {}
    /\ quantized_vectors = None
    /\ quantized_files = None

CheckOptimizedFilterCall ==
    /\ op.name = "filter"
    /\ op' = [op EXCEPT !.name = "check_optimized_filter"]
    /\ result' = Ok(CheckOptimizedFilter(op.filter, op.key))
    /\ UNCHANGED << quantized_vectors, quantized_files >>
    /\ UNCHANGED << vectors, deleted, deleted_count, db, pc, uf, stopped,
                    dbPuts, written >>

NextFilter == CheckOptimizedFilterCall

SpecFilter == InitFilter /\ [][NextFilter]_vars

\* ------------------------------------------------------------ C19, C20
\* the rule of the claim: whether a condition accepts a point
RECURSIVE Accepts(_, _)
RECURSIVE Passes(_, _)
Accepts(condition, point_id) ==
    IF condition.kind = "Filter" THEN Passes(condition.filter, point_id)
    ELSE point_id \in condition.accepted

Passes(filter, point_id) ==
    /\ \/ filter.should = None
       \/ \E i \in 1..Len(filter.should[2]) : Accepts(filter.should[2][i], point_id)
    /\ \/ filter.must = None
       \/ \A i \in 1..Len(filter.must[2]) : Accepts(filter.must[2][i], point_id)
    /\ \/ filter.must_not = None
       \/ ~ \E i \in 1..Len(filter.must_not[2]) : Accepts(filter.must_not[2][i], point_id)
    /\ CheckNested(filter.nested, point_id)

\* C19: check_optimized_filter(filter, p) is true exactly when should is
\* absent or some should condition accepts p, must is absent or every must
\* condition accepts p, must_not is absent or no must_not condition accepts
\* p, and the nested check passes; a condition that is a filter is evaluated
\* by the same rule.
C19_FilterRule ==
    op.name = "check_optimized_filter" =>
        result = Ok(Passes(op.filter, op.key))

C19_Witness ==
    /\ op.name = "check_optimized_filter"
    /\ op.key = 0
    /\ op.filter.should = Some(<<>>)
    /\ op.filter.must = Some(<<FilterCondition(
           OptimizedFilter(Some(<<Checker({0})>>), None, None, None))>>)
    /\ op.filter.must_not = Some(<<Checker({1})>>)
    /\ op.filter.nested = None
    /\ result = Ok(FALSE)

\* the must semantics of the claim applied to the nested filter's must list
NestedMust(nested, point_id) ==
    \/ nested = None
    \/ nested[2].filter.must = None
    \/ \A i \in 1..Len(nested[2].filter.must[2]) :
          Accepts(nested[2].filter.must[2][i], point_id)

\* C20: the nested check passes only if every condition of the nested
\* filter's must list accepts the point; with no nested branch or no must
\* list it passes.
C20_NestedIsMust ==
    op.name = "check_optimized_filter" =>
        /\ CheckNested(op.filter.nested, op.key) = NestedMust(op.filter.nested, op.key)
        /\ (result = Ok(TRUE) => NestedMust(op.filter.nested, op.key))

\* ================================================================ scoring
\* DotProductMetric: similarity is the dot product, preprocess returns None
RECURSIVE DotFrom(_, _, _)
DotFrom(a, b, i) ==
    IF i > Len(a) THEN 0 ELSE a[i] * b[i] + DotFrom(a, b, i + 1)

Similarity(a, b) == DotFrom(a, b, 1)
Preprocess(vector) == None
Preprocessed(vector) ==
    IF Preprocess(vector) = None THEN vector ELSE Preprocess(vector)[2]

ScoredPointOffset(idx, score) == [idx |-> idx, score |-> score]

\* peek_top_largest_iterable: the top elements by score, largest first, the
\* lower idx first among equal scores
Better(a, b) == a.score > b.score \/ (a.score = b.score /\ a.idx < b.idx)

RECURSIVE PeekTopLargest(_, _)
PeekTopLargest(scores, top) ==
    IF top = 0 \/ scores = <<>> THEN <<>>
    ELSE LET best == CHOOSE i \in 1..Len(scores) :
                        \A j \in 1..Len(scores) :
                            j = i \/ Better(scores[i], scores[j])
                               \/ (scores[i] = scores[j] /\ i < j)
             rest == [k \in 1..(Len(scores) - 1) |->
                        IF k < best THEN scores[k] ELSE scores[k + 1]]
         IN  <<scores[best]>> \o PeekTopLargest(rest, top - 1)

\* points.filter(|id| !deleted[id]): indexing the mask out of range panics
RECURSIVE FilterLive(_, _)
FilterLive(d, points) ==
    IF points = <<>> THEN <<>>
    ELSE IF d[Head(points) + 1] THEN FilterLive(d, Tail(points))
    ELSE <<Head(points)>> \o FilterLive(d, Tail(points))

ExactScores(vs, query, ids) ==
    [i \in 1..Len(ids) |->
        ScoredPointOffset(ids[i], Similarity(query, vs[ids[i] + 1]))]

\* VectorScorer::score_points
ScorePoints(vs, d, vector, points, top) ==
    PeekTopLargest(ExactScores(vs, Preprocessed(vector), FilterLive(d, points)), top)

ScoreAllRange_NoFilter(vs, d) == [i \in 1..Len(vs) |-> i - 1]

\* (0..vectors.len()).filter(|id| !deleted[id]) of score_all
ScoreAllRange(vs, d) == FilterLive(d, [i \in 1..Len(vs) |-> i - 1])

\* VectorScorer::score_all
ScoreAll(vs, d, vector, top) ==
    PeekTopLargest(ExactScores(vs, Preprocessed(vector), ScoreAllRange(vs, d)), top)

\* ------------------------------------------------------- quantized index
\* QuantizedVectorsStorage: the encoded copies of the vectors it was created
\* from; score_point on an id it does not hold panics
QuantizedCreate(vs) == [vectors |-> vs]
QuantizedCount(index) == Len(index.vectors)
QuantizedFiles(index) == <<"quantized.data", "quantized.meta.json">>

\* quantized_raw_scorer: Some exactly when an index is present
QuantizedRawScorer(q, vector) ==
    IF q # None
    THEN Some([query |-> Preprocessed(vector), index |-> q[2]])
    ELSE None

QuantizedScorePoint(scorer, idx) ==
    Similarity(scorer.query, scorer.index.vectors[idx + 1])

ScoreQuantizedFilter_NoFilter(d, points) == points

\* the filter of score_quantized_points on the mask
ScoreQuantizedFilter(d, points) == FilterLive(d, points)

\* VectorScorer::score_quantized_points
ScoreQuantizedPoints(vs, d, q, vector, points, top) ==
    IF QuantizedRawScorer(q, vector) # None
    THEN LET scorer == QuantizedRawScorer(q, vector)[2]
             ids == ScoreQuantizedFilter(d, points)
         IN  IF \E i \in 1..Len(ids) : ids[i] >= QuantizedCount(scorer.index)
             THEN Panic
             ELSE Ok(PeekTopLargest(
                        [i \in 1..Len(ids) |->
                            ScoredPointOffset(ids[i], QuantizedScorePoint(scorer, ids[i]))],
                        top))
    ELSE Ok(ScorePoints(vs, d, vector, points, top))

\* ------------------------------------------------------------ raw scorer
\* SimpleRawScorer::score_points: the loop over points from (size, scores);
\* scores[size] on a buffer of length <= size panics
RECURSIVE RawScoreLoop(_, _, _, _, _, _)
RawScoreLoop(vs, d, query, points, scores, size) ==
    IF points = <<>> THEN Ok([size |-> size, scores |-> scores])
    ELSE LET point_id == Head(points)
         IN  IF d[point_id + 1]
             THEN RawScoreLoop(vs, d, query, Tail(points), scores, size)
             ELSE IF size >= Len(scores) THEN Panic
             ELSE LET written_scores ==
                          [scores EXCEPT ![size + 1] =
                              ScoredPointOffset(point_id,
                                  Similarity(query, vs[point_id + 1]))]
                  IN  IF size + 1 = Len(scores)
                      THEN Ok([size |-> size + 1, scores |-> written_scores])
                      ELSE RawScoreLoop(vs, d, query, Tail(points),
                                        written_scores, size + 1)

\* raw_scorer(vector).score_points(points, scores)
RawScorePoints(vs, d, vector, points, scores) ==
    RawScoreLoop(vs, d, Preprocessed(vector), points, scores, 0)

\* ------------------------------------------------- scoring specification
\* the column of a storage whose every id has been written
RECURSIVE StoredUpTo(_, _, _)
StoredUpTo(vs, d, n) ==
    IF n = 0 THEN EmptyDb
    ELSE UpdateStored(vs, d, StoredUpTo(vs, d, n - 1), n - 1, TRUE)

ScoreStorages ==
    UNION { { [vectors |-> vs, deleted |-> d] :
                vs \in [1..n -> VectorValues], d \in [1..n -> BOOLEAN] } :
            n \in 0..MaxScoreLen }

\* the index a storage may hold: none, one built from all its vectors, or one
\* built before the last vector was put
QuantizedOf(vs) ==
    {None} \cup { Some(QuantizedCreate(SubSeq(vs, 1, c))) :
                    c \in { Len(vs), Len(vs) - 1 } \cap Nat }

EmptyScores(n) == [i \in 1..n |-> ScoredPointOffset(0, 0)]

\* a storage, a query, candidate ids below its length and a top are chosen,
\* then one of the scoring functions is called
InitScore ==
    /\ \E st \in ScoreStorages :
          /\ vectors = st.vectors
          /\ deleted = st.deleted
          /\ deleted_count = Len(st.deleted) - Cardinality(LiveSlots(st.deleted))
          /\ db = StoredUpTo(st.vectors, st.deleted, Len(st.vectors))
          /\ written = 0..(Len(st.vectors) - 1)
          /\ quantized_vectors \in QuantizedOf(st.vectors)
          /\ quantized_files = quantized_vectors
          /\ \E query \in VectorValues, top \in 0..MaxTop,
                points \in SeqsUpTo(0..(Len(st.vectors) - 1), MaxPoints) :
                op = [name |-> "score", key |-> 0, vector |-> query,
                      points |-> points, top |-> top]
    /\ pc = "idle"
    /\ uf = NoUpdate
    /\ stopped = FALSE
    /\ result = Pending
    /\ dbPuts = <<>>

\* score_points(vector, points, top)
ScorePointsCall ==
    /\ op.name = "score"
    /\ op' = [op EXCEPT !.name = "score_points"]
    /\ result' = Ok(ScorePoints(vectors, deleted, op.vector, op.points, op.top))
    /\ UNCHANGED << vectors, deleted, deleted_count, db, pc, uf, stopped,
                    dbPuts, written, quantized_vectors, quantized_files >>

\* score_quantized_points(vector, points, top)
ScoreQuantizedPointsCall ==
    /\ op.name = "score"
    /\ op' = [op EXCEPT !.name = "score_quantized_points"]
    /\ result' = ScoreQuantizedPoints(vectors, deleted, quantized_vectors,
                                    op.vector, op.points, op.top)
    /\ UNCHANGED << vectors, deleted, deleted_count, db, pc, uf, stopped,
                    dbPuts, written, quantized_vectors, quantized_files >>

\* score_all(vector, top)
ScoreAllCall ==
    /\ op.name = "score"
    /\ op' = [op EXCEPT !.name = "score_all"]
    /\ result' = Ok(ScoreAll(vectors, deleted, op.vector, op.top))
    /\ UNCHANGED << vectors, deleted, deleted_count, db, pc, uf, stopped,
                    dbPuts, written, quantized_vectors, quantized_files >>

\* raw_scorer(vector).score_points(points, scores) on a buffer of length top
RawScorePointsCall ==
    /\ op.name = "score"
    /\ op' = [op EXCEPT !.name = "raw_score_points"]
    /\ result' = RawScorePoints(vectors, deleted, op.vector, op.points,
                              EmptyScores(op.top))
    /\ UNCHANGED << vectors, deleted, deleted_count, db, pc, uf, stopped,
                    dbPuts, written, quantized_vectors, quantized_files >>

NextScore ==
    \/ ScorePointsCall
    \/ ScoreQuantizedPointsCall
    \/ ScoreAllCall
    \/ RawScorePointsCall

SpecScore == InitScore /\ [][NextScore]_vars

\* ---------------------------------------------------------- scoring claims
Min(a, b) == IF a < b THEN a ELSE b
SeqElems(q) == { q[i] : i \in 1..Len(q) }
LiveCount(d, points) ==
    Cardinality({ i \in 1..Len(points) : ~d[points[i] + 1] })
AllIds == [i \in 1..total_vector_count |-> i - 1]
Candidates == IF op.name = "score_all" THEN AllIds ELSE op.points

\* C12: scoring never returns a deleted id: for any query, any candidates
\* below total_vector_count() and any top, every idx in the result of
\* score_points, score_quantized_points and score_all is live at the time of
\* the call and was among the candidates, and the result is no longer than
\* min(top, number of live candidates).
C12_ScoringSkipsDeleted ==
    (/\ op.name \in {"score_points", "score_quantized_points", "score_all"}
     /\ result[1] = "Ok") =>
        /\ \A i \in 1..Len(result[2]) :
              /\ result[2][i].idx \in SeqElems(Candidates)
              /\ is_deleted(result[2][i].idx) = Ok(FALSE)
        /\ Len(result[2]) <= Min(op.top, LiveCount(deleted, Candidates))

C12_Witness ==
    /\ op.name = "score_quantized_points"
    /\ quantized_vectors # None
    /\ op.points = <<0, 1>>
    /\ deleted = <<TRUE, FALSE>>
    /\ op.top = 2
    /\ result[1] = "Ok"
    /\ Len(result[2]) = 1
    /\ result[2][1].idx = 1

\* C13: the raw scorer's score_points(points, out) visits points in order,
\* skips deleted ids, writes one entry per live id into out at consecutive
\* positions from 0, stops when out is full, and returns the number written,
\* min(len(out), live ids in points), for every out length including 0.
C13_RawScorePoints ==
    op.name = "raw_score_points" =>
        LET live == FilterLive(deleted, op.points)
            n == Min(op.top, Len(live))
        IN  /\ result[1] = "Ok"
            /\ result[2].size = n
            /\ Len(result[2].scores) = op.top
            /\ \A i \in 1..n :
                  result[2].scores[i] =
                      ScoredPointOffset(live[i],
                          Similarity(op.vector, vectors[live[i] + 1]))
            /\ \A i \in (n + 1)..op.top :
                  result[2].scores[i] = EmptyScores(op.top)[i]

\* C16: score_all(query, top) returns the same result as
\* score_points(query, iter_ids(), top).
C16_ScoreAllIsScorePointsOfIterIds ==
    op.name = "score_all" =>
        result = Ok(ScorePoints(vectors, deleted, op.vector, iter_ids, op.top))

C16_Witness ==
    /\ op.name = "score_all"
    /\ deleted = <<TRUE, FALSE>>
    /\ op.top = 2
    /\ result[1] = "Ok"
    /\ Len(result[2]) = 1
    /\ result[2][1].idx = 1

\* ----------------------------------------------------------- quantization
\* files(): the files of the index, none without an index
FilesOf(q) == IF q # None THEN QuantizedFiles(q[2]) ELSE <<>>
files == FilesOf(quantized_vectors)

QuantizeInstall_OnError(q, index, ok) == Some(index)

\* quantized_vectors after `Some(create(..)?)`: assigned only when create
\* returns Ok
QuantizeInstall(q, index, ok) == IF ok THEN Some(index) ELSE q

\* quantize(path, config); createOk is whether QuantizedVectorsStorage::create
\* succeeds, and a successful create saves the index under path
Quantize(createOk) ==
    /\ pc = "idle"
    /\ quantized_vectors' =
           QuantizeInstall(quantized_vectors, QuantizedCreate(vectors), createOk)
    /\ quantized_files' =
           IF createOk THEN Some(QuantizedCreate(vectors)) ELSE quantized_files
    /\ result' = IF createOk THEN Ok(Unit) ELSE ServiceError
    /\ op' = NoCall("quantize")
    /\ dbPuts' = <<>>
    /\ uf' = NoUpdate
    /\ UNCHANGED << vectors, deleted, deleted_count, db, pc, stopped, written >>

\* load_quantization(path); loadOk is whether QuantizedVectorsStorage::load
\* succeeds when check_exists finds the files
LoadQuantization(loadOk) ==
    /\ pc = "idle"
    /\ IF quantized_files # None
       THEN /\ quantized_vectors' =
                   IF loadOk THEN Some(quantized_files[2]) ELSE quantized_vectors
            /\ result' = IF loadOk THEN Ok(Unit) ELSE ServiceError
       ELSE /\ loadOk
            /\ UNCHANGED quantized_vectors
            /\ result' = Ok(Unit)
    /\ op' = NoCall("load_quantization")
    /\ dbPuts' = <<>>
    /\ uf' = NoUpdate
    /\ UNCHANGED << vectors, deleted, deleted_count, db, pc, stopped, written,
                    quantized_files >>

\* storages of at most MaxScoreLen vectors that are written, quantized,
\* reopened and loaded
NextQ ==
    \/ total_vector_count < MaxScoreLen
          /\ \E vector \in VectorValues : PutVector(vector, TRUE)
    \/ \E key \in 0..(MaxScoreLen - 1), vector \in VectorValues :
          InsertVector(key, vector, TRUE)
    \/ \E key \in 0..(MaxScoreLen - 1) : Delete(key, TRUE)
    \/ Reopen
    \/ \E createOk \in BOOLEAN : Quantize(createOk)
    \/ \E loadOk \in BOOLEAN : LoadQuantization(loadOk)

SpecQ == Init /\ [][NextQ]_vars

\* what the claim says of a storage without an index
NoIndexBehaviour(vs, d, q) ==
    q = None =>
        /\ FilesOf(q) = <<>>
        /\ \A vector \in VectorValues, top \in 0..MaxTop :
              LET points == [i \in 1..Len(vs) |-> i - 1]
              IN  ScoreQuantizedPoints(vs, d, q, vector, points, top)
                      = Ok(ScorePoints(vs, d, vector, points, top))

\* C15: a storage has no quantized index from open until a quantize call
\* succeeds or a load_quantization call finds existing files; a
\* load_quantization that finds none leaves the index, or its absence,
\* unchanged; quantized_raw_scorer returns Some exactly when an index is
\* present; while none is present score_quantized_points returns what
\* score_points returns and files() is empty.
C15_QuantizedIndexPresence ==
    /\ quantized_vectors = None
    /\ NoIndexBehaviour(vectors, deleted, quantized_vectors)
    /\ [][ /\ op'.name = "open" => quantized_vectors' = None
           /\ (quantized_vectors = None /\ quantized_vectors' # None) =>
                 /\ result' = Ok(Unit)
                 /\ \/ op'.name = "quantize"
                    \/ op'.name = "load_quantization" /\ quantized_files # None
           /\ (op'.name = "load_quantization" /\ quantized_files = None) =>
                 /\ quantized_vectors' = quantized_vectors
                 /\ result' = Ok(Unit)
           /\ \A vector \in VectorValues :
                 (QuantizedRawScorer(quantized_vectors', vector) # None)
                     <=> (quantized_vectors' # None)
           /\ NoIndexBehaviour(vectors', deleted', quantized_vectors')
         ]_vars

\* an index was built and saved, and the storage opened again has none
C15_Witness ==
    /\ op.name = "open"
    /\ quantized_vectors = None
    /\ quantized_files # None
    /\ files = <<>>
    /\ total_vector_count = 2
    /\ deleted = <<FALSE, TRUE>>

\* C21: in every reachable state vector_count() equals the number of ids
\* yielded by iter_ids(), the number of live slots, for any sequence of
\* put_vector, insert_vector, delete, update_from and reopen.
C21_VectorCountIsLiveCount ==
    \A r \in VectorCountOutcomes(vectors, deleted_count) :
        r = Ok(Len(iter_ids))

\* C22: whenever a quantized index is present it covers the storage's whole
\* id space: the number of vectors it was built from equals
\* total_vector_count(), so every live id can be scored through
\* score_quantized_points.
C22_IndexCoversIdSpace ==
    quantized_vectors # None =>
        /\ QuantizedCount(quantized_vectors[2]) = total_vector_count
        /\ \A vector \in VectorValues, id \in LiveSlots(deleted) :
              ScoreQuantizedPoints(vectors, deleted, quantized_vectors,
                                   vector, <<id>>, 1)[1] = "Ok"

====
